---- MODULE Spec2Model ----
(***************************************************************************)
(* AT45DB DataFlash driver (src/drivers/AT45DB/AT45DBFlash.cpp) and the    *)
(* chip it talks to.  The driver is modelled call by call: every public    *)
(* operation expands into the bus transactions its code issues, each       *)
(* transaction is one step (the busy poll of command() included), and the  *)
(* chip finishes its internal operations in steps of its own.              *)
(***************************************************************************)
EXTENDS Integers, Sequences, FiniteSets, TLC

VARIABLES
    expected_chip,    \* AT45DBFlash::_expected_chip
    density,          \* AT45DBFlash::_density
    cur_page_in_buf,  \* AT45DBFlash::_cur_page_in_buf
    initResult,       \* "none" before initialize() ran, else what it returned
    bus,              \* select line and pairing of select()/unselect()
    chip,             \* the attached part: main array, buffer 1, pending operation
    pc,               \* the public operation in progress and its position
    log,              \* non-status commands sent by the operation in progress / last run
    rd,               \* bytes the read operation in progress / last run hands back
    hist,             \* the operations that have returned, in order
    snap              \* the chip as it was when the last operation was called

vars == <<expected_chip, density, cur_page_in_buf, initResult, bus, chip, pc,
          log, rd, hist, snap>>

----------------------------------------------------------------------------
(* Bounds of the exploration *)

\* longest short byte sequence handed to writeBytes / asked of readBytes
MaxLen == 2
\* length of the long transfer (crosses one or two page boundaries)
LongLen == 300
\* longest write session script (startContWrite, writeContByte*, stopContWrite)
MaxScript == 3
\* operations the caller runs after initialize()
MaxOps == 2
\* settings changes by other users of the bus
MaxBusChanges == 1
\* pages and offsets sampled next to each end of their range
AddrSpan == 1

----------------------------------------------------------------------------
(* Geometry table, AT45DBFlash.h *)

\* a table with one address bit less per page
AT45_PageBitSizes_Narrow == <<8, 8, 8, 8, 9, 9, 10>>

AT45_PageBitSizes == <<9, 9, 9, 9, 10, 10, 11>>
AT45_PagesTotal   == <<512, 1024, 2048, 4096, 4096, 8192, 8192>>
AT45_PageBytes    == <<264, 264, 264, 264, 528, 528, 1056>>

Chips == 0..6
AT45DB041 == 2

PageBits(d)   == AT45_PageBitSizes[d + 1]
PagesTotal(d) == AT45_PagesTotal[d + 1]
PageBytes(d)  == AT45_PageBytes[d + 1]
TotalBytes(d) == PagesTotal(d) * PageBytes(d)

\* density code a part reports in status bits 2..5 (table in AT45DBFlash.h)
DensityCode(d) == 2 * d + 3

Not8(b) == 255 - b

----------------------------------------------------------------------------
(* Address translator *)

addressToByteInPage(d, addr) == (addr % PageBytes(d)) % 65536

\* a translator that splits the address at the page bit width
addressToPage_Shift(d, addr) == (addr \div (2 ^ PageBits(d))) % 65536

addressToPage(d, addr) == (addr \div PageBytes(d)) % 65536

\* the three address bytes of send3bytesAddr: the low 24 bits of
\* (page << pageBitWidth) + start_byte
send3bytesAddr(d, page, start_byte) ==
    ((page * (2 ^ PageBits(d))) + start_byte) % (2 ^ 24)

----------------------------------------------------------------------------
(* The chip.  A page-sized content is kept as a base (what the array held   *)
(* at power-up, the erased pattern, or the buffer's power-up garbage) plus  *)
(* the raw bytes written over it, so unwritten pages cost nothing.          *)

EmptyOv == [o \in {} |-> 0]

\* raw main-array byte at power-up: arbitrary data left by earlier use
InitRaw(p, o) == (37 * p + 11 * o + 3) % 256

BaseAt(b, o) ==
    CASE b.k = "erased"  -> 255
      [] b.k = "array"   -> InitRaw(b.p, o)
      [] b.k = "powerup" -> (5 * o + 1) % 256

RawAt(c, o) == IF o \in DOMAIN c.ov THEN c.ov[o] ELSE BaseAt(c.base, o)

ErasedContent == [base |-> [k |-> "erased", p |-> 0], ov |-> EmptyOv]

PageContent(c, p) ==
    IF p \in DOMAIN c.written THEN c.written[p]
    ELSE IF p \in c.erased THEN ErasedContent
    ELSE [base |-> [k |-> "array", p |-> p], ov |-> EmptyOv]

\* raw byte of the main array
RawMain(c, p, o) == RawAt(PageContent(c, p), o)

NoPending == [k |-> "none", page |-> 0]

\* status register: bit 7 ready, bits 2..5 density code; an empty socket
\* reads 0x00
StatusReg(c) ==
    IF ~c.present THEN 0
    ELSE (IF c.pending.k = "none" THEN 128 ELSE 0) + 4 * c.code

\* the chip splits the 24 address bits by its own geometry; address bits
\* above its page count are don't-care
ChipPage(c, wire) == (wire \div (2 ^ PageBits(c.den))) % PagesTotal(c.den)
ChipByte(c, wire) == (wire % (2 ^ PageBits(c.den))) % PageBytes(c.den)

\* buffer write (0x84): bytes land at consecutive buffer offsets, wrapping
\* at the end of the buffer
BufWrite(c, off, out) ==
    LET pb  == PageBytes(c.den)
        hit == {(off + i - 1) % pb : i \in 1..Len(out)}
    IN  [base |-> c.buf.base,
         ov   |-> [o \in (DOMAIN c.buf.ov) \cup hit |->
                      IF o \in hit THEN out[((o - off) % pb) + 1]
                      ELSE c.buf.ov[o]]]

\* what a command does to the chip when its transaction ends; a busy or
\* absent chip ignores it
ChipExec(c, cmd, wire, out) ==
    IF ~c.present \/ c.pending.k # "none" THEN c
    ELSE CASE cmd = 132 -> [c EXCEPT !.buf = BufWrite(c, ChipByte(c, wire), out)]
           [] cmd = 83  -> [c EXCEPT !.pending = [k |-> "fetch", page |-> ChipPage(c, wire)]]
           [] cmd = 131 -> [c EXCEPT !.pending = [k |-> "program", page |-> ChipPage(c, wire)]]
           [] cmd = 129 -> [c EXCEPT !.pending = [k |-> "erasePage", page |-> ChipPage(c, wire)]]
           [] cmd = 80  -> [c EXCEPT !.pending = [k |-> "eraseBlock", page |-> ChipPage(c, wire)]]
           [] OTHER     -> c

\* pages of the block that holds page p (a block is 8 pages; the low three
\* page bits of a block erase are don't-care)
BlockPages(p) == {8 * (p \div 8) + j : j \in 0..7}

ErasePages(c, ps) ==
    [c EXCEPT !.erased  = @ \cup ps,
              !.written = [q \in (DOMAIN @) \ ps |-> @[q]]]

\* the internal operation completes
ChipComplete(c) ==
    LET done == [c EXCEPT !.pending = NoPending]
        p    == c.pending.page
    IN  CASE c.pending.k = "fetch"      -> [done EXCEPT !.buf = PageContent(c, p)]
          [] c.pending.k = "program"    ->
                 [done EXCEPT !.written = (p :> c.buf) @@ @]
          [] c.pending.k = "erasePage"  -> ErasePages(done, {p})
          [] c.pending.k = "eraseBlock" -> ErasePages(done, BlockPages(p))
          [] OTHER -> done

\* continuous array read (0xE8): n raw bytes from the main array, running
\* on into the following pages
ChipRead(c, wire, n) ==
    IF ~c.present \/ c.pending.k # "none" THEN [i \in 1..n |-> 0]
    ELSE LET pb  == PageBytes(c.den)
             lin == ChipPage(c, wire) * pb + ChipByte(c, wire)
         IN  [i \in 1..n |->
                 RawMain(c, ((lin + i - 1) \div pb) % PagesTotal(c.den),
                            (lin + i - 1) % pb)]

----------------------------------------------------------------------------
(* Transport session *)

\* SPCR/SPSR the flash transaction runs with (MSBFIRST, SPI_MODE0, clock /2)
FlashSettings == [SPCR |-> 80, SPSR |-> 1]

\* SPI.begin(): master mode and SPI enable bits set in SPCR
SPIbegin(b) ==
    [b EXCEPT !.cur.SPCR = @ + (IF (@ \div 64) % 2 = 0 THEN 64 ELSE 0)
                             + (IF (@ \div 16) % 2 = 0 THEN 16 ELSE 0)]

\* select() that leaves _SPCR/_SPSR as they are
select_NoSave(b) ==
    [b EXCEPT !.sel = TRUE, !.reselect = @ \/ b.sel, !.cur = FlashSettings]

\* select(): save SPCR/SPSR, switch to the flash settings, pull SS low
select(b) ==
    [b EXCEPT !.sel = TRUE, !.reselect = @ \/ b.sel,
              !.saved = b.cur, !.cur = FlashSettings]

\* unselect() that leaves the select line low
unselect_StaysLow(b) == [b EXCEPT !.stray = @ \/ ~b.sel, !.cur = b.saved]

\* unselect(): SS high, SPCR/SPSR written back from _SPCR/_SPSR
unselect(b) ==
    [b EXCEPT !.sel = FALSE, !.stray = @ \/ ~b.sel, !.cur = b.saved]

\* readStatus(): one bracketed status transaction
readStatus(b) == unselect(select(b))

\* busy(): ready bit of a status read clear
busy(sr) == (sr \div 128) % 2 # 1

\* command() that sends its opcode without waiting
commandMaySend_NoWait(sr) == TRUE

\* command() whose busy loop never falls through
commandMaySend_Never(sr) == FALSE

\* command(): while (busy()); falls through once a status read shows ready
commandMaySend(sr) == ~busy(sr)

\* command(): the status polls, then select() and the opcode; blind records
\* an opcode sent after a status read that showed busy
command(b, sr) ==
    select([readStatus(b) EXCEPT !.sr = sr, !.blind = @ \/ busy(sr)])

----------------------------------------------------------------------------
(* Driver primitives: the bus transactions each helper issues, in order.    *)
(* A "cmd" entry is command(cmd); send3bytesAddr(page, off); the data       *)
(* bytes; unselect().  A "wait" entry is waitUntilBusy().                   *)

Cmd(cmd, page, off, out, n) ==
    [k |-> "cmd", cmd |-> cmd, page |-> page, off |-> off, out |-> out, n |-> n]

Wait == [k |-> "wait", cmd |-> 0, page |-> 0, off |-> 0, out |-> <<>>, n |-> 0]

\* bytes clearBuffer shifts out
ClearLen == 264

clearBuffer == <<Cmd(132, 0, 0, [i \in 1..ClearLen |-> 255], 0)>>

\* getPageToBuf without the page-to-buffer transfer
getPageToBuf_NoFetch(page) == clearBuffer

getPageToBuf(page) == clearBuffer \o <<Cmd(83, page, 0, <<>>, 0), Wait>>

\* writeByteToBuffer shifting the byte out as it is
writeByteToBuffer_Plain(start_byte, data) ==
    <<Cmd(132, 0, start_byte, <<data>>, 0)>>

writeByteToBuffer(start_byte, data) ==
    <<Cmd(132, 0, start_byte, <<Not8(data)>>, 0)>>

programBufToPage(page) == <<Cmd(131, page, 0, <<>>, 0)>>

\* erasePage that sends the block-erase opcode
erasePage_BlockOpcode(page) == <<Cmd(80, page, 0, <<>>, 0), Wait>>

erasePage(page) == <<Cmd(129, page, 0, <<>>, 0), Wait>>

\* eraseBlock that sends the block index as the page address
eraseBlock_NoShift(block) == <<Cmd(80, block, 0, <<>>, 0), Wait>>

\* eraseBlock that returns once the command is sent
eraseBlock_NoWait(block) == <<Cmd(80, block * 8, 0, <<>>, 0)>>

eraseBlock(block) == <<Cmd(80, block * 8, 0, <<>>, 0), Wait>>

\* command(0xE8), address, 4 dummy bytes, then n bytes clocked in
arrayRead(d, addr, n) ==
    <<Cmd(232, addressToPage(d, addr), addressToByteInPage(d, addr), <<>>, n)>>

\* what readByte returns for the raw byte clocked in
readByteResult(raw) == raw

\* what readBytes stores for each raw byte clocked in
readBytesResult(raw) == Not8(raw)

\* startContWrite that records the page and does not stage it
startContWrite_NoStage(d, start_addr) ==
    [cur |-> addressToPage(d, start_addr), todo |-> <<>>]

\* startContWrite: record the page, stage it
startContWrite(d, start_addr) ==
    [cur |-> addressToPage(d, start_addr),
     todo |-> getPageToBuf(addressToPage(d, start_addr))]

\* writeContByte that commits on a page change and keeps the buffer as it is
writeContByte_NoRefetch(d, cur, addr, byte) ==
    LET act == addressToPage(d, addr)
    IN  IF cur # act
        THEN [cur  |-> act,
              todo |-> programBufToPage(cur)
                         \o writeByteToBuffer(addressToByteInPage(d, addr), byte)]
        ELSE [cur  |-> cur,
              todo |-> writeByteToBuffer(addressToByteInPage(d, addr), byte)]

\* writeContByte that re-stages on a page change without committing
writeContByte_NoCommit(d, cur, addr, byte) ==
    LET act == addressToPage(d, addr)
    IN  IF cur # act
        THEN [cur  |-> act,
              todo |-> getPageToBuf(act)
                         \o writeByteToBuffer(addressToByteInPage(d, addr), byte)]
        ELSE [cur  |-> cur,
              todo |-> writeByteToBuffer(addressToByteInPage(d, addr), byte)]

\* writeContByte that commits and re-stages on every byte
writeContByte_Always(d, cur, addr, byte) ==
    LET act == addressToPage(d, addr)
    IN  [cur  |-> act,
         todo |-> programBufToPage(cur) \o getPageToBuf(act)
                    \o writeByteToBuffer(addressToByteInPage(d, addr), byte)]

\* writeContByte: commit and re-stage on a page change, then one buffer byte
writeContByte(d, cur, addr, byte) ==
    LET act == addressToPage(d, addr)
    IN  IF cur # act
        THEN [cur  |-> act,
              todo |-> programBufToPage(cur) \o getPageToBuf(act)
                         \o writeByteToBuffer(addressToByteInPage(d, addr), byte)]
        ELSE [cur  |-> cur,
              todo |-> writeByteToBuffer(addressToByteInPage(d, addr), byte)]

\* stopContWrite that commits the buffer to page 0
stopContWrite_FirstPage(cur) == [cur |-> cur, todo |-> programBufToPage(0)]

\* stopContWrite: commit the staged page
stopContWrite(cur) == [cur |-> cur, todo |-> programBufToPage(cur)]

\* byte counts the region erases size their loops from
EraseSize4K  == 4096
EraseSize32K == 32768
EraseSize64K == 655356

EraseOps == {"blockErase4K", "blockErase32K", "blockErase64K"}

EraseSize(name) ==
    CASE name = "blockErase4K"  -> EraseSize4K
      [] name = "blockErase32K" -> EraseSize32K
      [] name = "blockErase64K" -> EraseSize64K

\* num_pages of blockErase4K/32K/64K
num_pages(d, name) == (EraseSize(name) \div PageBytes(d)) + 1

\* a detection loop with one attempt more
InitAttempts_OneMore == 10 + 1

\* attempts of the detection loop
InitAttempts == 10

\* density index initialize() derives from a status byte:
\* den = (sr & 0b00111100) >> 2; den = (den-3) >> 1, kept in a uint8_t
StatusDensity(sr) == ((((sr % 64) \div 4) - 3) \div 2) % 256

----------------------------------------------------------------------------
(* Control state *)

Idle == [name |-> "idle", addr |-> 0, data |-> <<>>, n |-> 0, i |-> 0,
         todo |-> <<>>, phase |-> "idle"]

WriteOps == {"writeByte", "writeBytes", "contWrite"}

\* the (address, byte) of the i-th writeContByte call of the running operation
NextWrite(p) ==
    IF p.name = "contWrite" THEN p.data[p.i + 1]
    ELSE [a |-> p.addr + p.i, b |-> p.data[p.i + 1]]

\* the running operation has nothing left to do
Finished(p) ==
    /\ p.todo = <<>>
    /\ \/ p.phase = "ret"
       \/ p.name = "readUniqueId" /\ p.i = 8
       \/ p.name \in EraseOps /\ p.i >= p.n
       \/ p.name = "chipErase" /\ p.i >= p.n

----------------------------------------------------------------------------
(* The caller: which arguments the operations are tried with *)

ByteVals == {0, 165}

ShortData == UNION {[1..n -> ByteVals] : n \in 0..MaxLen}

LongData == [i \in 1..LongLen |-> (7 * i + 1) % 256]

\* first byte, last byte of page 0, first byte of the last page
Addrs(d) == {0, PageBytes(d) - 1, (PagesTotal(d) - 1) * PageBytes(d)}

InRange(d, addr, len) == addr + len <= TotalBytes(d)

ReadLens == (1..MaxLen) \cup {LongLen}

\* start addresses of the region erases: page 0, mid-page 3, block 1
EraseAddrs(d) == {0, 3 * PageBytes(d) + 5, 8 * PageBytes(d)}

ErasePageArgs == {0, 9}
EraseBlockArgs == {0, 1}

\* a session script: addresses hopping between pages 0 and 1
SessAddrs(d) == {0, 1, PageBytes(d)}
SessByte(k) == 16 * k + 1
Scripts(d) ==
    UNION {{[k \in 1..n |-> [a |-> s[k], b |-> SessByte(k)]] :
               s \in [1..n -> SessAddrs(d)]} : n \in 1..MaxScript}

\* what initialize() finds in the socket: the expected part, another part
\* of the family, or nothing
WrongPart(e) == (e + 4) % 7
Part(present, den) ==
    [present |-> present, den |-> den, code |-> DensityCode(den),
     pending |-> NoPending]
Fitted(e) == {Part(TRUE, e), Part(TRUE, WrongPart(e)), Part(FALSE, e)}

\* for the detection loop alone: a device answering with any 4-bit density
\* code, ready or still finishing an operation started before the reset
DensityCodes == 0..15
Probed(e) ==
    {[present |-> TRUE, den |-> e, code |-> c, pending |-> p] :
        c \in DensityCodes, p \in {NoPending, [k |-> "erasePage", page |-> 0]}}
    \cup {Part(FALSE, e)}

\* SPCR/SPSR as the rest of the system uses the shared bus
AppSettings == [SPCR |-> 83, SPSR |-> 0]
BusSettings == {AppSettings, [SPCR |-> 0, SPSR |-> 0]}

\* _density is not set by the constructor: whatever the object's storage held
UninitDensity == {0, 5}

Called == pc = Idle /\ initResult # "none" /\ Len(hist) < MaxOps + 1

\* operations that change the chip are tried as the first operation after
\* initialize(); the long-running ones on an identified chip
First == Called /\ Len(hist) = 1
FirstLong == First /\ initResult = "true"

Call(name, addr, data, n, phase, todo) ==
    /\ pc' = [name |-> name, addr |-> addr, data |-> data, n |-> n, i |-> 0,
              todo |-> todo, phase |-> phase]
    /\ log' = <<>>
    /\ rd' = <<>>
    /\ snap' = chip

----------------------------------------------------------------------------
FreshBus(settings) ==
    [sel |-> FALSE, reselect |-> FALSE, stray |-> FALSE, blind |-> FALSE,
     sr |-> 0, cur |-> settings, saved |-> [SPCR |-> 255, SPSR |-> 255],
     app |-> settings, changes |-> 0]

FreshChip(f) ==
    [present |-> f.present, den |-> f.den, code |-> f.code, pending |-> f.pending,
     buf |-> [base |-> [k |-> "powerup", p |-> 0], ov |-> EmptyOv],
     erased |-> {}, written |-> [q \in {} |-> ErasedContent]]

\* the state the constructor leaves, with part f on a bus set to `settings`;
\* _SPCR/_SPSR are written by initialize() before anything reads them
Constructed(e, f, settings) ==
    /\ expected_chip = e
    /\ density \in UninitDensity
    /\ cur_page_in_buf = -1
    /\ initResult = "none"
    /\ bus = FreshBus(settings)
    /\ chip = FreshChip(f)
    /\ pc = Idle
    /\ log = <<>>
    /\ rd = <<>>
    /\ hist = <<>>
    /\ snap = chip

Init == \E e \in Chips : \E f \in Fitted(e) : Constructed(e, f, AppSettings)

----------------------------------------------------------------------------
(* initialize() *)

Initialize ==
    /\ pc = Idle
    /\ initResult = "none"
    /\ bus' = unselect(SPIbegin([bus EXCEPT !.saved = bus.cur]))
    /\ Call("initialize", 0, <<>>, 0, "loop", <<>>)
    /\ UNCHANGED <<expected_chip, density, cur_page_in_buf, initResult, chip, hist>>

\* one pass of the detection loop; pc.n counts the status reads
InitAttempt ==
    /\ pc.name = "initialize"
    /\ pc.i < InitAttempts
    /\ LET sr == StatusReg(chip)
       IN  IF sr = 0
           THEN /\ bus' = [readStatus(bus) EXCEPT !.sr = sr]
                /\ pc' = [pc EXCEPT !.i = @ + 1, !.n = @ + 1]
                /\ UNCHANGED <<density, initResult, hist>>
           ELSE /\ ~busy(sr)
                /\ bus' = [readStatus(readStatus(bus)) EXCEPT !.sr = sr]
                /\ IF expected_chip = StatusDensity(sr)
                   THEN /\ density' = StatusDensity(sr)
                        /\ initResult' = "true"
                        /\ pc' = Idle
                        /\ hist' = Append(hist, [name |-> "initialize", addr |-> 0,
                                                data |-> <<>>, n |-> pc.n + 2, res |-> <<1>>])
                   ELSE /\ pc' = [pc EXCEPT !.i = @ + 1, !.n = @ + 2]
                        /\ UNCHANGED <<density, initResult, hist>>
    /\ UNCHANGED <<expected_chip, cur_page_in_buf, chip, log, rd, snap>>

InitFail ==
    /\ pc.name = "initialize"
    /\ pc.i >= InitAttempts
    /\ initResult' = "false"
    /\ pc' = Idle
    /\ hist' = Append(hist, [name |-> "initialize", addr |-> 0, data |-> <<>>,
                            n |-> pc.n, res |-> <<0>>])
    /\ UNCHANGED <<expected_chip, density, cur_page_in_buf, bus, chip, log, rd, snap>>

----------------------------------------------------------------------------
(* Public operations: the call *)

ReadByte ==
    /\ Called
    /\ \E addr \in Addrs(density) :
          Call("readByte", addr, <<>>, 1, "ret", arrayRead(density, addr, 1))
    /\ UNCHANGED <<expected_chip, density, cur_page_in_buf, initResult, bus, chip, hist>>

ReadBytes ==
    /\ Called
    /\ \E addr \in Addrs(density), len \in ReadLens :
          /\ InRange(density, addr, len)
          /\ len = LongLen => initResult = "true"
          /\ Call("readBytes", addr, <<>>, len, "ret", arrayRead(density, addr, len))
    /\ UNCHANGED <<expected_chip, density, cur_page_in_buf, initResult, bus, chip, hist>>

ReadUniqueId ==
    /\ Called
    /\ Call("readUniqueId", 0, <<>>, 8, "loop", <<>>)
    /\ UNCHANGED <<expected_chip, density, cur_page_in_buf, initResult, bus, chip, hist>>

WriteByte ==
    /\ First
    /\ \E addr \in Addrs(density), byt \in ByteVals :
          LET st == startContWrite(density, addr)
          IN  /\ cur_page_in_buf' = st.cur
              /\ Call("writeByte", addr, <<byt>>, 1, "loop", st.todo)
    /\ UNCHANGED <<expected_chip, density, initResult, bus, chip, hist>>

WriteBytes ==
    /\ First
    /\ \E addr \in Addrs(density), buf \in ShortData \cup {LongData} :
          LET st == startContWrite(density, addr)
          IN  /\ InRange(density, addr, Len(buf))
              /\ buf = LongData => initResult = "true"
              /\ cur_page_in_buf' = st.cur
              /\ Call("writeBytes", addr, buf, Len(buf), "loop", st.todo)
    /\ UNCHANGED <<expected_chip, density, initResult, bus, chip, hist>>

\* a write session driven directly: startContWrite at the first address,
\* writeContByte per script entry, stopContWrite
ContWrite ==
    /\ FirstLong
    /\ \E sc \in Scripts(density) :
          LET st == startContWrite(density, sc[1].a)
          IN  /\ cur_page_in_buf' = st.cur
              /\ Call("contWrite", sc[1].a, sc, Len(sc), "loop", st.todo)
    /\ UNCHANGED <<expected_chip, density, initResult, bus, chip, hist>>

BlockErase ==
    /\ First
    /\ \E name \in EraseOps, addr \in EraseAddrs(density) :
          /\ name # "blockErase4K" => initResult = "true"
          /\ Call(name, addr, <<>>, num_pages(density, name), "loop", <<>>)
    /\ UNCHANGED <<expected_chip, density, cur_page_in_buf, initResult, bus, chip, hist>>

ChipErase ==
    /\ FirstLong
    /\ Call("chipErase", 0, <<>>, PagesTotal(density) \div 8, "loop", <<>>)
    /\ UNCHANGED <<expected_chip, density, cur_page_in_buf, initResult, bus, chip, hist>>

\* the single-page and single-block erase, called on their own
ErasePage ==
    /\ FirstLong
    /\ \E page \in ErasePageArgs :
          Call("erasePage", page, <<>>, 1, "ret", erasePage(page))
    /\ UNCHANGED <<expected_chip, density, cur_page_in_buf, initResult, bus, chip, hist>>

EraseBlock ==
    /\ FirstLong
    /\ \E block \in EraseBlockArgs :
          Call("eraseBlock", block, <<>>, 1, "ret", eraseBlock(block))
    /\ UNCHANGED <<expected_chip, density, cur_page_in_buf, initResult, bus, chip, hist>>

----------------------------------------------------------------------------
(* Public operations: their loops *)

\* for (i < len) writeContByte(addr+i, buf[i])
WriteContByte ==
    /\ pc.name \in WriteOps
    /\ pc.phase = "loop"
    /\ pc.todo = <<>>
    /\ pc.i < Len(pc.data)
    /\ LET w == NextWrite(pc)
           r == writeContByte(density, cur_page_in_buf, w.a, w.b)
       IN  /\ cur_page_in_buf' = r.cur
           /\ pc' = [pc EXCEPT !.i = @ + 1, !.todo = r.todo]
    /\ UNCHANGED <<expected_chip, density, initResult, bus, chip, log, rd, hist, snap>>

StopContWrite ==
    /\ pc.name \in WriteOps
    /\ pc.phase = "loop"
    /\ pc.todo = <<>>
    /\ pc.i >= Len(pc.data)
    /\ LET r == stopContWrite(cur_page_in_buf)
       IN  /\ cur_page_in_buf' = r.cur
           /\ pc' = [pc EXCEPT !.phase = "ret", !.todo = r.todo]
    /\ UNCHANGED <<expected_chip, density, initResult, bus, chip, log, rd, hist, snap>>

\* for (i=0; i<num_pages; i+=8) eraseBlock(page+i)
BlockEraseLoop ==
    /\ pc.name \in EraseOps
    /\ pc.todo = <<>>
    /\ pc.i < pc.n
    /\ pc' = [pc EXCEPT !.i = @ + 8,
                        !.todo = eraseBlock(addressToPage(density, pc.addr) + pc.i)]
    /\ UNCHANGED <<expected_chip, density, cur_page_in_buf, initResult, bus, chip,
                   log, rd, hist, snap>>

\* for (bl=0; bl<(AT45_PagesTotal[_density] >> 3); bl++) eraseBlock(bl)
EraseChipLoop ==
    /\ pc.name = "chipErase"
    /\ pc.todo = <<>>
    /\ pc.i < pc.n
    /\ pc' = [pc EXCEPT !.i = @ + 1, !.todo = eraseBlock(pc.i)]
    /\ UNCHANGED <<expected_chip, density, cur_page_in_buf, initResult, bus, chip,
                   log, rd, hist, snap>>

\* for (i<8) UNIQUEID[i] = readByte((AT45_PagesTotal-1)*AT45_PageBytes + i)
ReadUniqueIdLoop ==
    /\ pc.name = "readUniqueId"
    /\ pc.todo = <<>>
    /\ pc.i < 8
    /\ pc' = [pc EXCEPT !.i = @ + 1,
                        !.todo = arrayRead(density,
                                    (PagesTotal(density) - 1) * PageBytes(density) + pc.i, 1)]
    /\ UNCHANGED <<expected_chip, density, cur_page_in_buf, initResult, bus, chip,
                   log, rd, hist, snap>>

Return ==
    /\ pc.name \notin {"idle", "initialize"}
    /\ Finished(pc)
    /\ hist' = Append(hist, [name |-> pc.name, addr |-> pc.addr, data |-> pc.data,
                            n |-> pc.n, res |-> rd])
    /\ pc' = Idle
    /\ UNCHANGED <<expected_chip, density, cur_page_in_buf, initResult, bus, chip,
                   log, rd, snap>>

----------------------------------------------------------------------------
(* Bus transactions *)

\* command(): a status poll that finds the chip busy
CommandBusy ==
    /\ pc.todo # <<>>
    /\ Head(pc.todo).k = "cmd"
    /\ ~commandMaySend(StatusReg(chip))
    /\ bus' = [readStatus(bus) EXCEPT !.sr = StatusReg(chip)]
    /\ UNCHANGED <<expected_chip, density, cur_page_in_buf, initResult, chip, pc,
                   log, rd, hist, snap>>

\* command(): the poll finds the chip ready; select, opcode, address, data,
\* unselect
Command ==
    /\ pc.todo # <<>>
    /\ Head(pc.todo).k = "cmd"
    /\ commandMaySend(StatusReg(chip))
    /\ LET h    == Head(pc.todo)
           wire == send3bytesAddr(density, h.page, h.off)
           raw  == ChipRead(chip, wire, h.n)
       IN  /\ bus' = unselect(command(bus, StatusReg(chip)))
           /\ chip' = ChipExec(chip, h.cmd, wire, h.out)
           /\ rd' = IF h.cmd = 232
                    THEN rd \o [i \in 1..h.n |->
                                   IF pc.name = "readBytes"
                                   THEN readBytesResult(raw[i])
                                   ELSE readByteResult(raw[i])]
                    ELSE rd
           /\ log' = Append(log, [cmd |-> h.cmd, page |-> h.page, off |-> h.off,
                                  n |-> Len(h.out)])
           /\ pc' = [pc EXCEPT !.todo = Tail(@)]
    /\ UNCHANGED <<expected_chip, density, cur_page_in_buf, initResult, hist, snap>>

\* waitUntilBusy(): returns once the status byte shows ready
WaitUntilBusy ==
    /\ pc.todo # <<>>
    /\ Head(pc.todo).k = "wait"
    /\ ~busy(StatusReg(chip))
    /\ bus' = [readStatus(bus) EXCEPT !.sr = StatusReg(chip)]
    /\ pc' = [pc EXCEPT !.todo = Tail(@)]
    /\ UNCHANGED <<expected_chip, density, cur_page_in_buf, initResult, chip,
                   log, rd, hist, snap>>

\* the chip completes its internal operation
ChipFinish ==
    /\ chip.pending.k # "none"
    /\ chip' = ChipComplete(chip)
    /\ UNCHANGED <<expected_chip, density, cur_page_in_buf, initResult, bus, pc,
                   log, rd, hist, snap>>

----------------------------------------------------------------------------
Next ==
    \/ Initialize
    \/ InitAttempt
    \/ InitFail
    \/ ReadByte
    \/ ReadBytes
    \/ ReadUniqueId
    \/ WriteByte
    \/ WriteBytes
    \/ ContWrite
    \/ BlockErase
    \/ ChipErase
    \/ ErasePage
    \/ EraseBlock
    \/ WriteContByte
    \/ StopContWrite
    \/ BlockEraseLoop
    \/ EraseChipLoop
    \/ ReadUniqueIdLoop
    \/ Return
    \/ CommandBusy
    \/ Command
    \/ WaitUntilBusy
    \/ ChipFinish

Spec == Init /\ [][Next]_vars

\* the detection loop alone, against a device answering with any density code
InitIdent == \E e \in Chips : \E f \in Probed(e) : Constructed(e, f, AppSettings)

NextIdent ==
    \/ Initialize
    \/ InitAttempt
    \/ InitFail
    \/ ChipFinish

SpecIdent == InitIdent /\ [][NextIdent]_vars

\* the rest of the system reprograms the shared bus between two operations
OtherBusUser ==
    /\ pc = Idle
    /\ initResult # "none"
    /\ bus.changes < MaxBusChanges
    /\ \E st \in BusSettings \ {bus.cur} :
          bus' = [bus EXCEPT !.cur = st, !.app = st, !.changes = @ + 1]
    /\ UNCHANGED <<expected_chip, density, cur_page_in_buf, initResult, chip, pc,
                   log, rd, hist, snap>>

\* the smallest part on a bus that other users reprogram
InitBus == \E f \in Fitted(0) : Constructed(0, f, AppSettings)

NextBus ==
    \/ Next
    \/ OtherBusUser

SpecBus == InitBus /\ [][NextBus]_vars

\* the driver's own steps: the processor keeps executing the operation it
\* is in, its polling loops included
DriverStep ==
    \/ InitAttempt
    \/ InitFail
    \/ WriteContByte
    \/ StopContWrite
    \/ BlockEraseLoop
    \/ EraseChipLoop
    \/ Return
    \/ CommandBusy
    \/ Command
    \/ WaitUntilBusy

\* the public operations called once after initialize(), and a single-byte
\* read after whichever of them returned (it finds the chip still
\* programming after a write)
LiveCall ==
    \/ First /\ ReadBytes
    \/ First /\ WriteByte
    \/ First /\ WriteBytes
    \/ First /\ BlockErase
    \/ First /\ ChipErase
    \/ Len(hist) <= 2 /\ ReadByte

InitLive == \E f \in Fitted(0) : Constructed(0, f, AppSettings)

NextLive ==
    \/ Initialize
    \/ LiveCall
    \/ DriverStep
    \/ ChipFinish

\* the smallest part; the processor keeps running the driver and the chip
\* finishes every internal operation it has started
SpecLive ==
    /\ InitLive
    /\ [][NextLive]_vars
    /\ WF_vars(DriverStep)
    /\ WF_vars(ChipFinish)

\* the address arithmetic alone: two linear addresses of the active part are
\* split into page and offset, then packed into the three address bytes
SamplePages(d) ==
    (0..AddrSpan) \cup {PagesTotal(d) - 1 - k : k \in 0..AddrSpan} \cup {127, 128}
SampleOffsets(d) ==
    (0..AddrSpan) \cup {PageBytes(d) - 1 - k : k \in 0..AddrSpan} \cup {255, 256}
AddrSamples(d) ==
    {p * PageBytes(d) + o : p \in SamplePages(d), o \in SampleOffsets(d)}

InitAddr ==
    \E d \in Chips : \E a \in AddrSamples(d), b \in AddrSamples(d) :
        /\ expected_chip = d
        /\ density = d
        /\ cur_page_in_buf = -1
        /\ initResult = "true"
        /\ bus = FreshBus(AppSettings)
        /\ chip = FreshChip(Part(TRUE, d))
        /\ pc = [Idle EXCEPT !.name = "address", !.addr = a, !.n = b, !.phase = "linear"]
        /\ log = <<>>
        /\ rd = <<>>
        /\ hist = <<>>
        /\ snap = chip

\* addressToPage / addressToByteInPage of both addresses
AddressSplit ==
    /\ pc.name = "address"
    /\ pc.phase = "linear"
    /\ rd' = <<addressToPage(density, pc.addr), addressToByteInPage(density, pc.addr),
               addressToPage(density, pc.n), addressToByteInPage(density, pc.n)>>
    /\ pc' = [pc EXCEPT !.phase = "split"]
    /\ UNCHANGED <<expected_chip, density, cur_page_in_buf, initResult, bus, chip,
                   log, hist, snap>>

\* send3bytesAddr(page, offset) of both
AddressSend ==
    /\ pc.name = "address"
    /\ pc.phase = "split"
    /\ rd' = rd \o <<send3bytesAddr(density, rd[1], rd[2]),
                      send3bytesAddr(density, rd[3], rd[4])>>
    /\ pc' = [pc EXCEPT !.phase = "wire"]
    /\ UNCHANGED <<expected_chip, density, cur_page_in_buf, initResult, bus, chip,
                   log, hist, snap>>

NextAddr ==
    \/ AddressSplit
    \/ AddressSend

SpecAddr == InitAddr /\ [][NextAddr]_vars

----------------------------------------------------------------------------
(* Vocabulary of the properties *)

\* the chip once the operation it is working on has completed (what any
\* later command sees, since command() waits for ready)
Settled(c) == IF c.pending.k = "none" THEN c ELSE ChipComplete(c)

\* the byte of the linear store at addr, as the inversion layer presents it
Logical(c, d, addr) ==
    Not8(RawMain(c, addr \div PageBytes(d), addr % PageBytes(d)))

\* an operation has just returned to the caller of an identified chip
Returned(name) ==
    /\ pc = Idle
    /\ initResult = "true"
    /\ Len(hist) >= 2
    /\ hist[Len(hist)].name = name

Last == hist[Len(hist)]

CountCmd(l, cmd) == Cardinality({j \in 1..Len(l) : l[j].cmd = cmd})

\* pages whose content the model holds explicitly, and a few more
KnownPages(c, d) ==
    (DOMAIN c.written) \cup c.erased \cup {0, 1, 2, PagesTotal(d) - 1}

IsByteWrite(e) == e.cmd = 132 /\ e.n = 1
IsStageCmd(e) == e.cmd \in {83, 131} \/ IsByteWrite(e)

FetchOf(p)   == [cmd |-> 83, page |-> p, off |-> 0, n |-> 0]
ProgramOf(p) == [cmd |-> 131, page |-> p, off |-> 0, n |-> 0]
ByteAt(o)    == [cmd |-> 132, page |-> 0, off |-> o, n |-> 1]

----------------------------------------------------------------------------
(* C1: after a successful initialize, writeBytes(addr, data) immediately    *)
(* followed by readBytes(addr, len(data)) returns exactly data, also when   *)
(* the range crosses page boundaries.                                       *)
C1_WriteReadRoundTrip ==
    (pc = Idle /\ initResult = "true") =>
        \A k \in 2..(Len(hist) - 1) :
            (/\ hist[k].name = "writeBytes"
             /\ hist[k + 1].name = "readBytes"
             /\ hist[k + 1].addr = hist[k].addr
             /\ hist[k + 1].n = Len(hist[k].data))
            => hist[k + 1].res = hist[k].data

\* a long write that crossed two page boundaries was read back
C1_Witness ==
    /\ pc = Idle /\ initResult = "true" /\ Len(hist) = 3
    /\ hist[2].name = "writeBytes" /\ hist[2].data = LongData
    /\ addressToPage(density, hist[2].addr + LongLen - 1)
         = addressToPage(density, hist[2].addr) + 2
    /\ hist[3].name = "readBytes" /\ hist[3].addr = hist[2].addr
    /\ hist[3].n = LongLen /\ hist[3].res = LongData

(* C2: writeByte(addr, v) followed by readByte(addr) returns v, and         *)
(* readByte(addr) returns the byte readBytes(addr, 1) returns.              *)
C2_SingleByteSameLayer ==
    (pc = Idle /\ initResult = "true") =>
        \A k \in 2..(Len(hist) - 1) :
            /\ (/\ hist[k].name = "writeByte"
                /\ hist[k + 1].name = "readByte"
                /\ hist[k + 1].addr = hist[k].addr)
               => hist[k + 1].res = hist[k].data
            /\ (/\ hist[k].name = "readByte"
                /\ hist[k + 1].name = "readBytes"
                /\ hist[k + 1].addr = hist[k].addr
                /\ hist[k + 1].n = 1)
               => hist[k + 1].res = hist[k].res

(* C3: writeBytes(addr, data) changes only the bytes in                     *)
(* [addr, addr+len(data)): every other byte of the main array, the rest of  *)
(* the first and last page included, reads as it did before the call.       *)
C3_WriteFrame ==
    Returned("writeBytes") =>
        LET now == Settled(chip)
        IN  \A p \in KnownPages(now, density) \cup KnownPages(snap, density) :
              \A o \in 0..(PageBytes(density) - 1) :
                LET a == p * PageBytes(density) + o
                IN  (a < Last.addr \/ a >= Last.addr + Len(Last.data))
                    => RawMain(now, p, o) = RawMain(snap, p, o)

\* a write that started at the last byte of page 0 and ran into page 1 has
\* returned and its bytes are in the array
C3_Witness ==
    /\ Returned("writeBytes")
    /\ Last.addr = PageBytes(density) - 1
    /\ Len(Last.data) = 2
    /\ {0, 1} \subseteq DOMAIN Settled(chip).written
    /\ Logical(Settled(chip), density, Last.addr + 1) = Last.data[2]

C5_Amortized ==
    (Returned("writeBytes") /\ Len(Last.data) >= 1) =>
        LET K == addressToPage(density, Last.addr + Len(Last.data) - 1)
                   - addressToPage(density, Last.addr) + 1
        IN  /\ CountCmd(log, 83) = K
            /\ CountCmd(log, 131) = K

\* a long write over three pages has returned
C5_Witness ==
    /\ Returned("writeBytes")
    /\ Last.data = LongData
    /\ CountCmd(log, 83) = 3
    /\ CountCmd(log, 131) = 3

(* C6: on an AT45DB041, writeBytes of 300 bytes (any length over one and    *)
(* up to two pages) at address 0 issues: fetch page 0, 264 buffer byte      *)
(* writes at offsets 0..263, program page 0, fetch page 1, the remaining    *)
(* byte writes from offset 0, program page 1, and no other fetch, byte      *)
(* write or program.                                                        *)
C6_Scenario300 ==
    (/\ Returned("writeBytes")
     /\ density = AT45DB041
     /\ Last.addr = 0
     /\ Len(Last.data) > 264 /\ Len(Last.data) <= 528)
    => SelectSeq(log, IsStageCmd)
         = <<FetchOf(0)>> \o [i \in 1..264 |-> ByteAt(i - 1)]
             \o <<ProgramOf(0), FetchOf(1)>>
             \o [i \in 1..(Len(Last.data) - 264) |-> ByteAt(i - 1)]
             \o <<ProgramOf(1)>>

C6_Witness ==
    /\ Returned("writeBytes")
    /\ density = AT45DB041
    /\ Last.addr = 0
    /\ Last.data = LongData
    /\ CountCmd(log, 131) = 2

\* byte span a region erase is asked to cover
ClaimedSpan(name) ==
    CASE name = "blockErase4K"  -> 4096
      [] name = "blockErase32K" -> 32768
      [] name = "blockErase64K" -> 65536

ReturnedErase ==
    /\ pc = Idle
    /\ initResult = "true"
    /\ Len(hist) >= 2
    /\ hist[Len(hist)].name \in EraseOps

(* C7: blockErase4K/32K/64K(addr) erases every page that overlaps           *)
(* [addr, addr+S) for S = 4096, 32768, 65536, and the pages it erases form  *)
(* whole 8-page blocks.                                                     *)
C7_EraseCoversSpan ==
    ReturnedErase =>
        LET pb    == PageBytes(density)
            lastp == IF (Last.addr + ClaimedSpan(Last.name) - 1) \div pb
                          < PagesTotal(density)
                     THEN (Last.addr + ClaimedSpan(Last.name) - 1) \div pb
                     ELSE PagesTotal(density) - 1
            gone  == chip.erased \ snap.erased
        IN  /\ ((Last.addr \div pb)..lastp) \subseteq gone
            /\ \A p \in gone : BlockPages(p) \subseteq gone

(* C8: on a 264-byte-page chip blockErase4K(0) erases exactly pages 0..15   *)
(* (blocks 0 and 1).                                                        *)
C8_Erase4KAtZero ==
    (/\ ReturnedErase
     /\ Last.name = "blockErase4K"
     /\ Last.addr = 0
     /\ PageBytes(density) = 264)
    => chip.erased \ snap.erased = 0..15

(* C9: the block indices of successive eraseBlock calls of a region erase   *)
(* are b, b+1, b+2, ... with b = pageOf(addr) / 8.                          *)
C9_ConsecutiveBlocks ==
    ReturnedErase =>
        LET er == SelectSeq(log, LAMBDA e : e.cmd = 80)
            b  == addressToPage(density, Last.addr) \div 8
        IN  \A j \in 1..Len(er) : er[j].page = 8 * (b + j - 1)

(* C10: after initialize() returned false no operation sends a read,        *)
(* buffer, program or erase command or changes a byte of the main array.    *)
C10_RejectedWhenNotReady ==
    initResult = "false" =>
        /\ log = <<>>
        /\ chip.pending = NoPending
        /\ chip.erased = {}
        /\ DOMAIN chip.written = {}

----------------------------------------------------------------------------
\* density code field (bits 2..5) of a status byte
CodeField(sr) == (sr % 64) \div 4

(* C11: initialize() returns true only when a status byte read in one of    *)
(* its attempts has the ready bit set and carries in bits 2..5 exactly the  *)
(* density code of the expected chip (3, 5, 7, 9, 11, 13, 15); every other  *)
(* density code does not match; on success the active density is the        *)
(* expected chip.                                                           *)
C11_ExactDensityMatch ==
    initResult = "true" =>
        /\ ~busy(bus.sr)
        /\ CodeField(bus.sr) = DensityCode(expected_chip)
        /\ density = expected_chip

(* C12: initialize() makes at most 10 attempts: when every status read is   *)
(* 0x00 it returns false after exactly 10 status reads, when the chip is    *)
(* ready with another density it returns false after the 10th attempt, and  *)
(* a failing initialize() never sets the density.                           *)
C12_TenAttempts ==
    [][/\ (pc'.name = "initialize" => pc'.i <= 10)
       /\ (initResult = "none" /\ initResult' = "false")
          => /\ pc.i = 10
             /\ density' = density
             /\ ~chip.present => hist'[1].n = 10
             /\ (chip.present /\ snap.pending = NoPending) => hist'[1].n = 20
       /\ density' # density => initResult' = "true"]_vars

\* a ready chip of another density was asked ten times and rejected
C12_Witness ==
    /\ initResult = "false"
    /\ chip.present /\ chip.pending = NoPending
    /\ ~busy(bus.sr)
    /\ StatusDensity(bus.sr) # expected_chip
    /\ hist[1].n = 20
    /\ density \in UninitDensity

ReturnedWrite == Returned("writeByte") \/ Returned("writeBytes")

(* C13: once writeByte or writeBytes has returned (stopContWrite has run)   *)
(* no page is recorded as staged: the staged page number is -1 as after     *)
(* construction.                                                            *)
C13_StagedCleared == ReturnedWrite => cur_page_in_buf = -1

IsFetch(e)  == e.k = "cmd" /\ e.cmd = 83
LogFetch(e) == e.cmd = 83
StageLog    == SelectSeq(log, LAMBDA e : e.cmd \in {83, 131})

(* C14: in a write operation a page is committed before another one is      *)
(* staged: between a fetch of page P and the next fetch of a page Q # P     *)
(* there is a program of P, the operation starts with a fetch and ends      *)
(* with the program of the last page fetched, and while it runs exactly     *)
(* one page is recorded as staged, the one fetched last.                    *)
C14_CommitBeforeRestage ==
    LET st      == StageLog
        fetches == SelectSeq(log, LogFetch) \o SelectSeq(pc.todo, IsFetch)
    IN  /\ (pc.name \in WriteOps \/ Returned("writeByte")
              \/ Returned("writeBytes") \/ Returned("contWrite"))
           => \A j \in 1..Len(st) : \A k \in (j + 1)..Len(st) :
                 (/\ st[j].cmd = 83 /\ st[k].cmd = 83
                  /\ st[k].page # st[j].page
                  /\ \A m \in (j + 1)..(k - 1) : st[m].cmd # 83)
                 => \E m \in (j + 1)..(k - 1) : st[m] = ProgramOf(st[j].page)
        /\ pc.name \in WriteOps =>
              /\ cur_page_in_buf \in 0..(PagesTotal(density) - 1)
              /\ fetches # <<>>
              /\ fetches[Len(fetches)].page = cur_page_in_buf
        /\ (Returned("writeByte") \/ Returned("writeBytes") \/ Returned("contWrite"))
           => /\ st[1].cmd = 83
              /\ st[Len(st)].cmd = 131
              /\ \E j \in 1..(Len(st) - 1) :
                    /\ st[j] = FetchOf(st[Len(st)].page)
                    /\ \A m \in (j + 1)..Len(st) : st[m].cmd # 83

\* a session that went from page 0 to page 1 and back has returned
C14_Witness ==
    /\ Returned("contWrite")
    /\ StageLog = <<FetchOf(0), ProgramOf(0), FetchOf(1), ProgramOf(1),
                    FetchOf(0), ProgramOf(0)>>

(* C15: every array-read, buffer, fetch, program or erase command sends     *)
(* its opcode only after a status read, taken after the previous            *)
(* command's unselect, that showed the ready bit; none is sent after a      *)
(* status read that showed busy.                                            *)
C15_SentWhenReady == ~bus.blind

\* the buffer command that follows a program was held back until the chip
\* had finished programming
C15_Witness ==
    /\ pc.name \in WriteOps
    /\ Len(log) >= 2
    /\ log[Len(log)].cmd = 132
    /\ log[Len(log) - 1].cmd = 131
    /\ ~busy(bus.sr)
    /\ ~bus.blind

C17_StrictPairing == ~bus.stray

(* C18: the bus settings are preserved around every transaction: after      *)
(* the unselect of every operation, initialize() included, SPCR and SPSR    *)
(* hold what was in effect before the matching select.                      *)
C18_SettingsPreserved == bus.cur = bus.app

\* the bus was reprogrammed after initialize() and a read in the new
\* settings has returned
C18_Witness ==
    /\ Returned("readByte")
    /\ bus.changes = 1
    /\ bus.app # AppSettings
    /\ bus.saved = bus.app
    /\ bus.cur = bus.app
    /\ bus.cur # FlashSettings

(* C19: writeByte and writeBytes are blocking: when they return the final   *)
(* program has completed, the chip reports ready and the written bytes are  *)
(* in the main array.                                                       *)
C19_WriteBlocking ==
    ReturnedWrite =>
        /\ chip.pending = NoPending
        /\ ~busy(StatusReg(chip))
        /\ \A i \in 1..Len(Last.data) :
              Logical(chip, density, Last.addr + i - 1) = Last.data[i]

AllEraseOps == EraseOps \cup {"chipErase", "erasePage", "eraseBlock"}

----------------------------------------------------------------------------
BlockEraseOf(p) == [cmd |-> 80, page |-> p, off |-> 0, n |-> 0]
PageEraseOf(p)  == [cmd |-> 129, page |-> p, off |-> 0, n |-> 0]

(* C21: chipErase() issues exactly totalPages/8 block-erase commands, one   *)
(* for each block 0 .. totalPages/8 - 1 in ascending order, none twice,     *)
(* and afterwards every page of the device is erased.                       *)
C21_ChipEraseAllBlocks ==
    Returned("chipErase") =>
        /\ log = [j \in 1..(PagesTotal(density) \div 8) |-> BlockEraseOf(8 * (j - 1))]
        /\ chip.erased = 0..(PagesTotal(density) - 1)
        /\ DOMAIN chip.written = {}

\* a 512-page part has been erased, block 63 last
C21_Witness ==
    /\ Returned("chipErase")
    /\ PagesTotal(density) = 512
    /\ Len(log) = 64
    /\ log[64] = BlockEraseOf(504)
    /\ chip.erased = 0..511

\* every byte of the main array outside pages ps reads as before the call
FrameOutside(ps) ==
    LET near == {q \in {p + j : p \in ps, j \in {-1, 1}} :
                    q >= 0 /\ q < PagesTotal(density)}
    IN  \A p \in (KnownPages(chip, density) \cup KnownPages(snap, density) \cup near) \ ps :
          \A o \in 0..(PageBytes(density) - 1) :
             RawMain(chip, p, o) = RawMain(snap, p, o)

AllErased(ps) ==
    \A p \in ps : \A o \in 0..(PageBytes(density) - 1) : RawMain(chip, p, o) = 255

(* C22: erasePage(p) erases page p and leaves every other page unchanged;   *)
(* eraseBlock(b) issues one block-erase command whose address is page 8*b   *)
(* and erases exactly pages 8*b .. 8*b+7, leaving every other page          *)
(* unchanged.                                                               *)
C22_EraseFrame ==
    /\ Returned("erasePage") =>
          /\ log = <<PageEraseOf(Last.addr)>>
          /\ chip.erased \ snap.erased = {Last.addr}
          /\ AllErased({Last.addr})
          /\ FrameOutside({Last.addr})
          /\ chip.buf = snap.buf
    /\ Returned("eraseBlock") =>
          /\ log = <<BlockEraseOf(8 * Last.addr)>>
          /\ chip.erased \ snap.erased = (8 * Last.addr)..(8 * Last.addr + 7)
          /\ AllErased((8 * Last.addr)..(8 * Last.addr + 7))
          /\ FrameOutside((8 * Last.addr)..(8 * Last.addr + 7))
          /\ chip.buf = snap.buf

\* page 9 alone, in the middle of block 1, has been erased
C22_Witness ==
    /\ Returned("erasePage")
    /\ Last.addr = 9
    /\ chip.erased = {9}
    /\ RawMain(chip, 9, 0) = 255
    /\ RawMain(chip, 8, 0) = InitRaw(8, 0)
    /\ RawMain(chip, 10, 0) = InitRaw(10, 0)

(* C23: a freshly erased region reads as zero: after an erase operation     *)
(* that covers address a, and before any write to a, readBytes and          *)
(* readByte both return 0x00 for a.                                         *)
C23_ErasedReadsZero ==
    (pc = Idle /\ initResult = "true") =>
        \A k \in 2..(Len(hist) - 1) :
            (/\ hist[k].name \in AllEraseOps
             /\ hist[k + 1].name \in {"readByte", "readBytes"}
             /\ \A i \in 0..(hist[k + 1].n - 1) :
                   addressToPage(density, hist[k + 1].addr + i) \in chip.erased)
            => \A i \in 1..hist[k + 1].n : hist[k + 1].res[i] = 0

----------------------------------------------------------------------------
(* C24: the address translator round-trips for every density: for every     *)
(* address below totalPages*pageBytes,                                      *)
(* addressToPage(addr)*pageBytes + addressToByteInPage(addr) = addr and     *)
(* addressToByteInPage(addr) < pageBytes.                                   *)
C24_TranslatorRoundTrip ==
    (pc.name = "address" /\ Len(rd) >= 4) =>
        /\ pc.addr < TotalBytes(density) /\ pc.n < TotalBytes(density)
        /\ rd[1] * PageBytes(density) + rd[2] = pc.addr
        /\ rd[3] * PageBytes(density) + rd[4] = pc.n
        /\ rd[2] < PageBytes(density) /\ rd[4] < PageBytes(density)
        /\ rd[1] < PagesTotal(density) /\ rd[3] < PagesTotal(density)

\* the last byte of the largest part was split into page 8191, offset 1055
C24_Witness ==
    /\ pc.name = "address"
    /\ pc.addr = 8192 * 1056 - 1
    /\ Len(rd) >= 4
    /\ rd[1] = 8191 /\ rd[2] = 1055

(* C30: the 3-byte address (page << pageBitWidth) + offset is injective     *)
(* for every density: for in-range page and offset < pageBytes the offset   *)
(* is below 2^pageBitWidth and never spills into the page field, the value  *)
(* fits in 24 bits, and two distinct linear addresses never give the same   *)
(* wire address.                                                            *)
C30_WireInjective ==
    (pc.name = "address" /\ Len(rd) = 6) =>
        LET w == 2 ^ PageBits(density)
        IN  /\ rd[2] < w /\ rd[4] < w
            /\ rd[5] = rd[1] * w + rd[2] /\ rd[6] = rd[3] * w + rd[4]
            /\ rd[5] < 2 ^ 24 /\ rd[6] < 2 ^ 24
            /\ rd[5] \div w = rd[1] /\ rd[6] \div w = rd[3]
            /\ pc.addr # pc.n => rd[5] # rd[6]

\* the last byte of page 0 and the first of page 1 of a 264-byte-page part,
\* eight apart as linear addresses, 249 apart on the wire
C30_Witness ==
    /\ pc.name = "address"
    /\ PageBytes(density) = 264
    /\ pc.addr = 263 /\ pc.n = 264
    /\ Len(rd) = 6
    /\ rd[5] = 263 /\ rd[6] = 512

----------------------------------------------------------------------------
\* a queued buffer write that is not the single byte of writeByteToBuffer
IsClear(e) == e.k = "cmd" /\ e.cmd = 132 /\ Len(e.out) # 1

(* C25: clearBuffer initialises the whole on-chip buffer of the active      *)
(* geometry: for every density it writes pageBytes bytes (264, 528 or       *)
(* 1056), each the raw value 0xFF, starting at buffer offset 0.             *)
C25_ClearWholeBuffer ==
    (pc.name \in WriteOps /\ initResult = "true") =>
        \A j \in 1..Len(pc.todo) :
            IsClear(pc.todo[j]) =>
                /\ pc.todo[j].off = 0
                /\ pc.todo[j].out = [i \in 1..PageBytes(density) |-> 255]

(* C26: readUniqueId() returns the 8 bytes stored at the start of the       *)
(* reserved page 0 (linear addresses 0..7), for every density.              *)
C26_UniqueIdAtPageZero ==
    Returned("readUniqueId") =>
        /\ Len(log) = 8
        /\ \A i \in 1..8 : log[i].cmd = 232 /\ log[i].page = 0 /\ log[i].off = i - 1
        /\ Last.res = [i \in 1..8 |-> readByteResult(RawMain(chip, 0, i - 1))]

\* ceil(a / 8)
CeilDiv8(a) == (a + 7) \div 8

(* C27: for every size class S in {4096, 32768, 65536} and every density    *)
(* blockEraseS issues exactly ceil((floor(S / pageBytes) + 1) / 8)          *)
(* block-erase commands; blockErase64K issues no more than twice the        *)
(* number of blockErase32K plus one.                                        *)
C27_EraseCommandCount ==
    ReturnedErase =>
        LET pb == PageBytes(density)
        IN  /\ CountCmd(log, 80) = CeilDiv8((ClaimedSpan(Last.name) \div pb) + 1)
            /\ Last.name = "blockErase64K"
               => CountCmd(log, 80) <= 2 * CeilDiv8((32768 \div pb) + 1) + 1

----------------------------------------------------------------------------
\* the writeContByte calls of the running operation that have sent their
\* byte: all pc.i of them, less the one whose commands are still queued
BytesSent == IF pc.phase = "loop" /\ pc.todo # <<>> THEN pc.i - 1 ELSE pc.i

\* (address, byte) of the latest of them
LastWrite == NextWrite([pc EXCEPT !.i = BytesSent - 1])

\* the fetch or program sent last before the newest command of the log
StageBefore ==
    LET st == {j \in 1..(Len(log) - 1) : log[j].cmd \in {83, 131}}
    IN  IF st = {} THEN [cmd |-> 0, page |-> -1, off |-> 0, n |-> 0]
        ELSE log[CHOOSE j \in st : \A k \in st : k <= j]

(* C28: in every state of a write session each byte written to the buffer   *)
(* for address addr goes to offset addressToByteInPage(addr) while the      *)
(* buffer holds what was fetched from page addressToPage(addr) since the    *)
(* last program, and every program command targets the page fetched last,   *)
(* the one recorded in _cur_page_in_buf.                                    *)
C28_SessionInvariant ==
    (pc.name \in WriteOps /\ initResult = "true" /\ log # <<>>) =>
        LET e    == log[Len(log)]
            page == addressToPage(density, LastWrite.a)
            main == PageContent(chip, page)
        IN  /\ IsByteWrite(e) =>
                  /\ BytesSent >= 1
                  /\ e.off = addressToByteInPage(density, LastWrite.a)
                  /\ StageBefore = FetchOf(page)
                  /\ BytesSent = pc.i => cur_page_in_buf = page
                  /\ chip.buf.base = main.base
                  /\ DOMAIN main.ov \subseteq DOMAIN chip.buf.ov
                  /\ RawAt(chip.buf, e.off) = Not8(LastWrite.b)
            /\ e.cmd = 131 =>
                  /\ StageBefore = FetchOf(e.page)
                  /\ pc.phase = "ret" => e.page = cur_page_in_buf

\* a write running from the last byte of page 0 into page 1 has committed
\* page 0 and put its second byte at offset 0 of the buffer holding page 1
C28_Witness ==
    /\ pc.name = "writeBytes"
    /\ initResult = "true"
    /\ pc.addr = PageBytes(density) - 1
    /\ pc.i = 2
    /\ log # <<>>
    /\ log[Len(log)] = ByteAt(0)
    /\ StageBefore = FetchOf(1)
    /\ cur_page_in_buf = 1
    /\ 0 \in DOMAIN chip.written \/ chip.pending = [k |-> "program", page |-> 0]

----------------------------------------------------------------------------
(* C29: with a chip that reports ready after every command, every           *)
(* operation that was called eventually returns; with a chip that never     *)
(* reports ready (an empty socket reads 0x00) command() never sends its     *)
(* opcode and the operation never returns.                                  *)
C29_Termination ==
    /\ (chip.present /\ pc.name # "idle") ~> (pc = Idle)
    /\ [][(~chip.present /\ pc.name \notin {"idle", "initialize"})
             => (pc'.name = pc.name /\ log' = log /\ hist' = hist)]_vars

\* a three-page write and a read that found the chip still programming
\* have both returned
C29_Witness ==
    /\ pc = Idle
    /\ chip.present
    /\ Len(hist) = 3
    /\ hist[2].name = "writeBytes" /\ hist[2].data = LongData
    /\ hist[3].name = "readByte"
    /\ chip.pending = NoPending

====
